---- MODULE Spec2Model ----
(***************************************************************************)
(* Model of the rate-limited request scheduler of utils/apiRateLimiter     *)
(* (src/unnamed/part_003): the module-level requestQueue and isProcessing  *)
(* flag, scheduleApiCall and the processQueue drain chain, together with   *)
(* the environment it runs in: the JavaScript event loop (one callback at  *)
(* a time, run to completion), the timers created by setTimeout and the    *)
(* promises of the submitted operations.                                   *)
(*                                                                         *)
(* Operations are async callables (apiCall: () => Promise<any>): invoking  *)
(* one returns a pending promise, which the environment later fulfils or   *)
(* rejects, or never settles.  Time is counted in milliseconds.            *)
(***************************************************************************)
EXTENDS Integers, Sequences, FiniteSets, TLC

\* ---------------------------------------------------------------- bounds
\* Number of scheduleApiCall calls explored.
NumTasks == 3
\* Granularity of the clock: time advances in steps of TickStep ms.
TickStep == 700
\* Longest candle array built freely from BarSet.
MaxBars == 3
\* Largest period calculateEMA is called with on its own.
MaxPeriod == 4
\* Number of symbols in STOCKS (./constants).
NumStocks == 1
\* REFRESH_INTERVAL_SECONDS (./constants): seconds between automatic refreshes.
REFRESH_INTERVAL_SECONDS == 2
\* Longest requestQueue the application is let to build.
MaxQueue == 4
\* Messages the user sends.
MaxChat == 1

\* ------------------------------------------------------------- constants
\* const MIN_INTERVAL = 2100;
MIN_INTERVAL == 2100
\* Default periods: fastPeriod = 12, slowPeriod = 26, signalPeriod = 9, and the
\* RSI's period = 14.
FastPeriod == 12
SlowPeriod == 26
SignalPeriod == 9
RsiPeriod == 14
\* if (candles.length < 35) in SparklineChart's useMemo
ChartMinBars == 35
\* calculateSMA(volumes, 20)
VolumeSmaPeriod == 20

Tasks == 1..NumTasks
\* The symbols, in the order of the STOCKS array.
STOCKS == 1..NumStocks
\* Payloads an operation may return or throw; the scheduler hands them on
\* without looking at them, so two distinguishable ones are kept.
Vals == {1, 2}
\* What an operation's promise settles with: a returned value or a thrown error.
Outcomes == [kind : {"value", "error"}, v : Vals]
\* A handle (or an operation) that has not settled yet.
Pending == [kind |-> "pending", v |-> 0]

Min(a, b) == IF a < b THEN a ELSE b
Max(a, b) == IF a > b THEN a ELSE b

VARIABLES
    requestQueue,   \* the FIFO array of queued tasks (task ids)
    isProcessing,   \* the module-level flag
    inFlight,       \* tasks whose apiCall() was invoked and is being awaited
    timers,         \* pending setTimeout(processQueue, ..) timers: ms left, oldest first
    submitted,      \* number of scheduleApiCall calls made so far
    status,         \* per task: "new", "queued", "running", "resolved", "failed"
    handle,         \* per task: state of the promise scheduleApiCall returned
    opResult,       \* per task: what the operation's own promise settled with
    invocations,    \* per task: number of times apiCall() was called
    settleCalls,    \* per task: number of resolve()/reject() calls on its handle
    invoked,        \* log: tasks in the order their operation was invoked
    delivered,      \* log: tasks in the order their outcome was delivered
    startedBy,      \* per task: which caller of processQueue invoked it
    startGap,       \* per task: clocks read when its operation was invoked
    submittedIn,    \* per task: phase the scheduler was in when it was submitted
    sinceSettle,    \* ms since the last resolve()/reject(), -1 if none, capped
    sinceStart      \* ms since the last apiCall() invocation, -1 if none, capped

vars == <<requestQueue, isProcessing, inFlight, timers, submitted, status, handle,
          opResult, invocations, settleCalls, invoked, delivered, startedBy,
          startGap, submittedIn, sinceSettle, sinceStart>>

\* State of the indicator computations (components/SparklineChart.tsx and
\* services/geminiService, src/unnamed/part_000): the candle array handed to
\* them and the value the last call returned.
VARIABLES
    candles,        \* the Candle[] argument
    result          \* [fn |-> function applied, arg |-> its period, val |-> returned]

indVars == <<candles, result>>

\* An operation may itself call scheduleApiCall and await the handle it gets
\* before it completes.
VARIABLES
    awaits          \* per task: the task whose handle its operation awaits, 0 if none

reVars == <<awaits>>

\* The application (src/App.tsx) and the scheduler as it sees it.
VARIABLES
    stockData,      \* per symbol: status, countdown, candles, signal, chat, error
    apiQueue,       \* requestQueue: the tasks pushed by scheduleApiCall, oldest first
    apiProcessing,  \* isProcessing
    apiCall,        \* the task processQueue awaits and how far it got, or NoCall
    apiTimer,       \* setTimeout(processQueue, MIN_INTERVAL) is pending
    requests,       \* requests to the analysis service sent and not answered yet
    outcome,        \* how the promise of the last task run settled
    isChatLoading,  \* the isChatLoading state
    sentimentTimer  \* the sentiment effect's debounce timer is pending

appVars == <<stockData, apiQueue, apiProcessing, apiCall, apiTimer, requests, outcome,
             isChatLoading, sentimentTimer>>

\* No indicator function has been applied yet.
NoResult == [fn |-> "none", arg |-> 0, val |-> << >>]

\* A clock that has not been started.
NoGap == [settle |-> -1, start |-> -1, prev |-> 0]

SchedInit ==
    /\ requestQueue = << >>
    /\ isProcessing = FALSE
    /\ inFlight = {}
    /\ timers = << >>
    /\ submitted = 0
    /\ status = [t \in Tasks |-> "new"]
    /\ handle = [t \in Tasks |-> Pending]
    /\ opResult = [t \in Tasks |-> Pending]
    /\ invocations = [t \in Tasks |-> 0]
    /\ settleCalls = [t \in Tasks |-> 0]
    /\ invoked = << >>
    /\ delivered = << >>
    /\ startedBy = [t \in Tasks |-> "none"]
    /\ startGap = [t \in Tasks |-> NoGap]
    /\ submittedIn = [t \in Tasks |-> "none"]
    /\ sinceSettle = -1
    /\ sinceStart = -1

\* No operation awaits another task.
ReInit == awaits = [t \in Tasks |-> 0]

\* ============================================================ application
\* App (src/App.tsx): the per-symbol stockData state, the handlers that submit
\* work to scheduleApiCall and the tasks they submit, run by the scheduler of
\* utils/apiRateLimiter one at a time.  Time is abstracted: a pending timer
\* (the one-second interval, the sentiment debounce, MIN_INTERVAL, the
\* simulated candle latency) may fire whenever it is pending.

\* No task is being awaited by processQueue.
NoCall == [kind |-> "none", sym |-> 0, stage |-> "none", candles |-> 0]

\* () => fetchSignal(symbol)
SignalTask(s) == [kind |-> "signal", sym |-> s]
\* getMarketNews
NewsTask == [kind |-> "news", sym |-> 0]
\* () => getChatResponse(symbol, ..)
ChatTask(s) == [kind |-> "chat", sym |-> s]
\* () => getMarketSentiment(signalsForSentiment)
SentimentTask == [kind |-> "sentiment", sym |-> 0]

\* The useState initialiser of stockData.
InitialStock ==
    [status |-> "OFFLINE", countdown |-> REFRESH_INTERVAL_SECONDS, candles |-> 0,
     signal |-> 0, chat |-> 0, error |-> FALSE]

\* const isRefreshingAll = Object.values(stockData).some(s => s.status === REFRESHING)
IsRefreshingAll == \E s \in STOCKS : stockData[s].status = "REFRESHING"

\* processQueue invokes apiCall(): the task runs up to its first await.
\* fetchSignal sets its symbol REFRESHING with error null and awaits
\* fetchStockCandles; the three service functions build their prompt and await
\* ai.models.generateContent.
Begin(sd, d) ==
    IF d.kind = "signal"
    THEN [sd EXCEPT ![d.sym].status = "REFRESHING", ![d.sym].error = FALSE]
    ELSE sd
Started(d) ==
    [kind |-> d.kind, sym |-> d.sym,
     stage |-> IF d.kind = "signal" THEN "candles" ELSE "service", candles |-> 0]
Issued(d) == IF d.kind = "signal" THEN 0 ELSE 1

\* scheduleApiCall without its isProcessing test: the first task pushed is
\* started at once.
ScheduleAll_noGuard(sd, ds) ==
    IF ds = << >>
    THEN /\ stockData' = sd
         /\ UNCHANGED <<apiQueue, apiProcessing, apiCall, requests>>
    ELSE /\ apiProcessing' = TRUE
         /\ apiCall' = Started(Head(apiQueue \o ds))
         /\ apiQueue' = Tail(apiQueue \o ds)
         /\ stockData' = Begin(sd, Head(apiQueue \o ds))
         /\ requests' = requests + Issued(Head(apiQueue \o ds))

\* scheduleApiCall called for each task of ds in turn by a handler that has
\* left stockData as sd: each task is pushed, and processQueue is called when
\* isProcessing is false, which is the case for the first one at most.
ScheduleAll(sd, ds) ==
    IF ds = << >>
    THEN /\ stockData' = sd
         /\ UNCHANGED <<apiQueue, apiProcessing, apiCall, requests>>
    ELSE IF apiProcessing
    THEN /\ apiQueue' = apiQueue \o ds
         /\ stockData' = sd
         /\ UNCHANGED <<apiProcessing, apiCall, requests>>
    ELSE /\ apiProcessing' = TRUE
         /\ apiCall' = Started(Head(apiQueue \o ds))
         /\ apiQueue' = Tail(apiQueue \o ds)
         /\ stockData' = Begin(sd, Head(apiQueue \o ds))
         /\ requests' = requests + Issued(Head(apiQueue \o ds))

\* STOCKS.forEach(symbol => scheduleApiCall(() => fetchSignal(symbol)))
RECURSIVE SignalTasks(_)
SignalTasks(n) == IF n = 0 THEN << >> ELSE Append(SignalTasks(n - 1), SignalTask(n))

\* The state after mount: the mount effect has called handleRefreshAll, so
\* fetchSignal of the first symbol is running and the rest is queued.
AppInit ==
    /\ stockData = Begin([s \in STOCKS |-> InitialStock], SignalTask(1))
    /\ apiQueue = Tail(SignalTasks(NumStocks)) \o <<NewsTask>>
    /\ apiProcessing = TRUE
    /\ apiCall = Started(SignalTask(1))
    /\ apiTimer = FALSE
    /\ requests = 0
    /\ outcome = "none"
    /\ isChatLoading = FALSE
    /\ sentimentTimer = TRUE

\* The scheduler as the module leaves it when loaded; no candles fetched yet.
Init ==
    /\ SchedInit
    /\ candles = << >>
    /\ result = NoResult
    /\ ReInit
    /\ AppInit

\* Mutant of Shift: requestQueue.pop(), the newest task first.
Shift_pop(q) == [task |-> q[Len(q)], rest |-> SubSeq(q, 1, Len(q) - 1)]

\* requestQueue.shift(): the task taken and the queue left.
Shift(q) == [task |-> Head(q), rest |-> Tail(q)]

\* Mutant of ProcessQueue: the empty-queue branch returns without clearing
\* isProcessing.
ProcessQueue_staysActive(q, st, by) ==
    IF Len(q) = 0
    THEN /\ requestQueue' = q
         /\ status' = st
         /\ UNCHANGED <<isProcessing, inFlight, invocations, invoked, startedBy,
                        startGap, sinceStart>>
    ELSE LET s == Shift(q)
             t == s.task
         IN  /\ isProcessing' = TRUE
             /\ requestQueue' = s.rest
             /\ inFlight' = inFlight \cup {t}
             /\ status' = [st EXCEPT ![t] = "running"]
             /\ invocations' = [invocations EXCEPT ![t] = @ + 1]
             /\ invoked' = Append(invoked, t)
             /\ startedBy' = [startedBy EXCEPT ![t] = by]
             /\ startGap' = [startGap EXCEPT ![t] =
                    [settle |-> sinceSettle, start |-> sinceStart,
                     prev |-> IF delivered = << >> THEN 0
                              ELSE delivered[Len(delivered)]]]
             /\ sinceStart' = 0

\* processQueue up to its await: called with the queue q and the task table st
\* as its caller left them; by names the caller ("submit": scheduleApiCall,
\* "timer": the setTimeout callback).
ProcessQueue(q, st, by) ==
    IF Len(q) = 0
    THEN /\ isProcessing' = FALSE
         /\ requestQueue' = q
         /\ status' = st
         /\ UNCHANGED <<inFlight, invocations, invoked, startedBy, startGap, sinceStart>>
    ELSE LET s == Shift(q)
             t == s.task
         IN  /\ isProcessing' = TRUE
             /\ requestQueue' = s.rest
             /\ inFlight' = inFlight \cup {t}
             /\ status' = [st EXCEPT ![t] = "running"]
             /\ invocations' = [invocations EXCEPT ![t] = @ + 1]
             /\ invoked' = Append(invoked, t)
             /\ startedBy' = [startedBy EXCEPT ![t] = by]
             /\ startGap' = [startGap EXCEPT ![t] =
                    [settle |-> sinceSettle, start |-> sinceStart,
                     prev |-> IF delivered = << >> THEN 0
                              ELSE delivered[Len(delivered)]]]
             /\ sinceStart' = 0

\* Where the drain chain stands between two callbacks: suspended at the await
\* ("running"), between setTimeout and its callback ("waiting"), or absent.
Phase ==
    IF inFlight # {} THEN "running"
    ELSE IF timers # << >> THEN "waiting"
    ELSE "idle"

\* Mutant of ScheduleApiCall: processQueue is called on every submission, without
\* the isProcessing test.
ScheduleApiCall_noGuard(t) ==
    /\ t = submitted + 1
    /\ submitted' = t
    /\ submittedIn' = [submittedIn EXCEPT ![t] = Phase]
    /\ ProcessQueue(Append(requestQueue, t), [status EXCEPT ![t] = "queued"], "submit")
    /\ UNCHANGED <<timers, handle, opResult, settleCalls, delivered, sinceSettle>>

\* Mutant of ScheduleApiCall: the task is put at the head of the queue (unshift).
ScheduleApiCall_unshift(t) ==
    /\ t = submitted + 1
    /\ submitted' = t
    /\ submittedIn' = [submittedIn EXCEPT ![t] = Phase]
    /\ LET q == <<t>> \o requestQueue
           st == [status EXCEPT ![t] = "queued"]
       IN  IF ~isProcessing
           THEN ProcessQueue(q, st, "submit")
           ELSE /\ requestQueue' = q
                /\ status' = st
                /\ UNCHANGED <<isProcessing, inFlight, invocations, invoked,
                               startedBy, startGap, sinceStart>>
    /\ UNCHANGED <<timers, handle, opResult, settleCalls, delivered, sinceSettle>>

\* Mutant of ScheduleApiCall: the task is only pushed; a drain chain is never
\* started.
ScheduleApiCall_pushOnly(t) ==
    /\ t = submitted + 1
    /\ submitted' = t
    /\ submittedIn' = [submittedIn EXCEPT ![t] = Phase]
    /\ requestQueue' = Append(requestQueue, t)
    /\ status' = [status EXCEPT ![t] = "queued"]
    /\ UNCHANGED <<isProcessing, inFlight, invocations, invoked, startedBy,
                   startGap, sinceStart>>
    /\ UNCHANGED <<timers, handle, opResult, settleCalls, delivered, sinceSettle>>

\* scheduleApiCall(apiCall), the submitted-th call: the executor pushes the task
\* and, when no drain chain is active, calls processQueue synchronously.
ScheduleApiCall(t) ==
    /\ t = submitted + 1
    /\ submitted' = t
    /\ submittedIn' = [submittedIn EXCEPT ![t] = Phase]
    /\ LET q == Append(requestQueue, t)
           st == [status EXCEPT ![t] = "queued"]
       IN  IF ~isProcessing
           THEN ProcessQueue(q, st, "submit")
           ELSE /\ requestQueue' = q
                /\ status' = st
                /\ UNCHANGED <<isProcessing, inFlight, invocations, invoked,
                               startedBy, startGap, sinceStart>>
    /\ UNCHANGED <<timers, handle, opResult, settleCalls, delivered, sinceSettle>>

\* Mutant of Deliver: the catch block calls resolve(error).
Deliver_resolveError(out) == [kind |-> "value", v |-> out.v]

\* What resolve(result) / reject(error) hands to the task's handle.
Deliver(out) == out

\* Mutant of SetTimeout: the delay is ignored, the callback is due at once.
SetTimeout_noDelay(ts, delay) == Append(ts, 0)

\* setTimeout(callback, delay): one more pending timer, delay ms from now.
SetTimeout(ts, delay) == Append(ts, delay)

\* Mutant of ApiCallSettles: the rejection is not caught, so processQueue ends at
\* the throw and never reaches setTimeout; the handle stays pending.
ApiCallSettles_uncaught(t, out) ==
    /\ t \in inFlight
    /\ inFlight' = inFlight \ {t}
    /\ opResult' = [opResult EXCEPT ![t] = out]
    /\ IF out.kind = "value"
       THEN /\ handle' = [handle EXCEPT ![t] = IF @ = Pending THEN out ELSE @]
            /\ settleCalls' = [settleCalls EXCEPT ![t] = @ + 1]
            /\ delivered' = Append(delivered, t)
            /\ sinceSettle' = 0
            /\ timers' = SetTimeout(timers, MIN_INTERVAL)
       ELSE UNCHANGED <<handle, settleCalls, delivered, sinceSettle, timers>>
    /\ status' = [status EXCEPT ![t] =
                    IF out.kind = "value" THEN "resolved" ELSE "failed"]
    /\ UNCHANGED <<requestQueue, isProcessing, submitted, invocations, invoked,
                   startedBy, startGap, submittedIn, sinceStart>>

\* Mutant of ApiCallSettles: when the queue is empty the chain goes idle at once
\* instead of waiting out the interval.
ApiCallSettles_idleWhenEmpty(t, out) ==
    /\ t \in inFlight
    /\ inFlight' = inFlight \ {t}
    /\ opResult' = [opResult EXCEPT ![t] = out]
    /\ handle' = [handle EXCEPT ![t] = IF @ = Pending THEN Deliver(out) ELSE @]
    /\ settleCalls' = [settleCalls EXCEPT ![t] = @ + 1]
    /\ status' = [status EXCEPT ![t] =
                    IF out.kind = "value" THEN "resolved" ELSE "failed"]
    /\ delivered' = Append(delivered, t)
    /\ sinceSettle' = 0
    /\ IF requestQueue = << >>
       THEN isProcessing' = FALSE /\ timers' = timers
       ELSE isProcessing' = isProcessing /\ timers' = SetTimeout(timers, MIN_INTERVAL)
    /\ UNCHANGED <<requestQueue, submitted, invocations, invoked,
                   startedBy, startGap, submittedIn, sinceStart>>

\* The awaited operation of task t settles with out and processQueue resumes:
\* resolve(result) or reject(error), then setTimeout(processQueue, MIN_INTERVAL).
ApiCallSettles(t, out) ==
    /\ t \in inFlight
    /\ inFlight' = inFlight \ {t}
    /\ opResult' = [opResult EXCEPT ![t] = out]
    /\ handle' = [handle EXCEPT ![t] = IF @ = Pending THEN Deliver(out) ELSE @]
    /\ settleCalls' = [settleCalls EXCEPT ![t] = @ + 1]
    /\ status' = [status EXCEPT ![t] =
                    IF out.kind = "value" THEN "resolved" ELSE "failed"]
    /\ delivered' = Append(delivered, t)
    /\ sinceSettle' = 0
    /\ timers' = SetTimeout(timers, MIN_INTERVAL)
    /\ UNCHANGED <<requestQueue, isProcessing, submitted, invocations, invoked,
                   startedBy, startGap, submittedIn, sinceStart>>

\* The oldest timer has expired and the event loop runs its callback, processQueue.
TimerFires ==
    /\ timers # << >>
    /\ Head(timers) = 0
    /\ timers' = Tail(timers)
    /\ ProcessQueue(requestQueue, status, "timer")
    /\ UNCHANGED <<submitted, submittedIn, handle, opResult, settleCalls, delivered,
                   sinceSettle>>

\* A clock capped at MIN_INTERVAL: "at least MIN_INTERVAL ago" is all that is kept.
Advance(c) == IF c < 0 THEN c ELSE Min(c + TickStep, MIN_INTERVAL)

\* TickStep ms pass: every pending timer comes closer to expiry.
Tick ==
    /\ timers' = [i \in DOMAIN timers |-> Max(timers[i] - TickStep, 0)]
    /\ sinceSettle' = Advance(sinceSettle)
    /\ sinceStart' = Advance(sinceStart)
    /\ UNCHANGED <<requestQueue, isProcessing, inFlight, submitted, status, handle,
                   opResult, invocations, settleCalls, invoked, delivered,
                   startedBy, startGap, submittedIn>>

Submit == \E t \in Tasks : ScheduleApiCall(t)
Settle == \E t \in Tasks : \E out \in Outcomes : ApiCallSettles(t, out)

Next ==
    \/ Submit /\ UNCHANGED <<indVars, reVars, appVars>>
    \/ Settle /\ UNCHANGED <<indVars, reVars, appVars>>
    \/ TimerFires /\ UNCHANGED <<indVars, reVars, appVars>>
    \/ Tick /\ UNCHANGED <<indVars, reVars, appVars>>

Spec == Init /\ [][Next]_vars

\* The event loop eventually runs an expired timer's callback, time passes, and
\* (the premise of the liveness claims) every invoked operation eventually settles.
Fairness ==
    /\ WF_vars(Tick)
    /\ WF_vars(TimerFires)
    /\ \A t \in Tasks : WF_vars(\E out \in Outcomes : ApiCallSettles(t, out))

FairSpec == Spec /\ Fairness

\* ------------------------------------------------ re-entrant submission
\* The running operation of task t calls scheduleApiCall for a new task and
\* awaits the returned handle; it does so at most once.
Reenter(t) ==
    /\ t \in inFlight
    /\ awaits[t] = 0
    /\ submitted < NumTasks
    /\ ScheduleApiCall(submitted + 1)
    /\ awaits' = [awaits EXCEPT ![t] = submitted + 1]
    /\ UNCHANGED <<indVars, appVars>>

\* An operation settles; one that awaits a handle settles only once that
\* handle has settled.
ReSettle(t, out) ==
    /\ IF awaits[t] = 0 THEN TRUE ELSE handle[awaits[t]] # Pending
    /\ ApiCallSettles(t, out)
    /\ UNCHANGED <<indVars, reVars, appVars>>

ReNext ==
    \/ Submit /\ UNCHANGED <<indVars, reVars, appVars>>
    \/ \E t \in Tasks : Reenter(t)
    \/ \E t \in Tasks : \E out \in Outcomes : ReSettle(t, out)
    \/ TimerFires /\ UNCHANGED <<indVars, reVars, appVars>>
    \/ Tick /\ UNCHANGED <<indVars, reVars, appVars>>

ReSpec == Init /\ [][ReNext]_<<vars, reVars>>

\* ============================================================ indicators
\* Numbers.  The code computes in IEEE doubles; the model computes the same
\* expressions exactly, on rationals [n, d] in lowest terms with d > 0.  Prices
\* and volumes are integers.  The record with d = 0 stands for null.
RECURSIVE Gcd(_, _)
Gcd(a, b) == IF b = 0 THEN a ELSE Gcd(b, a % b)
Abs(x) == IF x < 0 THEN -x ELSE x
Null == [n |-> 0, d |-> 0]
IsNull(x) == x.d = 0
Norm(n, d) ==
    LET g == Gcd(Abs(n), Abs(d))
        sg == IF d < 0 THEN -1 ELSE 1
    IN  [n |-> sg * (n \div g), d |-> sg * (d \div g)]
RInt(i) == [n |-> i, d |-> 1]
RFrac(a, b) == Norm(a, b)
RNeg(x) == [n |-> -x.n, d |-> x.d]
RAdd(x, y) ==
    LET g == Gcd(x.d, y.d)
        l == (x.d \div g) * y.d
    IN  Norm(x.n * (l \div x.d) + y.n * (l \div y.d), l)
RSub(x, y) == RAdd(x, RNeg(y))
RMul(x, y) ==
    LET g1 == Gcd(Abs(x.n), y.d)
        g2 == Gcd(Abs(y.n), x.d)
    IN  Norm((x.n \div g1) * (y.n \div g2), (x.d \div g2) * (y.d \div g1))
RDiv(x, y) == RMul(x, Norm(y.d, y.n))
RLt(x, y) == RSub(x, y).n < 0
RLe(x, y) == RSub(x, y).n <= 0

\* x.toFixed(2) read back with parseFloat: the nearest multiple of 0.01 to the
\* magnitude, the larger one on a tie, with the sign of x.
Round2(x) ==
    LET a == Abs(x.n)
        q == a \div x.d
        r == a % x.d
        h == (r * 100) \div x.d
        r2 == (r * 100) % x.d
        m == q * 100 + h + (IF 2 * r2 >= x.d THEN 1 ELSE 0)
    IN  Norm((IF x.n < 0 THEN -1 ELSE 1) * m, 100)

\* Candle: { open, high, low, close, volume } (time is read by no indicator).
BarV(o, h, l, c, v) == [open |-> o, high |-> h, low |-> l, close |-> c, volume |-> v]
Bar(o, h, l, c) == BarV(o, h, l, c, 1000)

\* The candles short arrays are built from: down, up and engulfing bodies
\* without shadows, hammer and doji shapes, and the boundary cases of each
\* threshold of detectCandlestickPatterns.
BarSet ==
    { Bar(100, 100, 90, 90),    \* down bar 100 -> 90
      Bar(90, 110, 90, 110),    \* up bar opening at the previous close
      Bar(80, 110, 80, 110),    \* up bar opening below 90
      Bar(90, 100, 90, 100),    \* up bar 90 -> 100
      Bar(110, 110, 80, 80),    \* down bar 110 -> 80
      Bar(100, 112, 70, 110),   \* hammer shape: body 10, lower 30, upper 2
      Bar(100, 115, 70, 110),   \* upper shadow 5 = 0.5 * body
      Bar(100, 112, 80, 110),   \* lower shadow 20 = 2 * body
      Bar(100, 110, 90, 100),   \* body 0, range 20
      Bar(100, 100, 100, 100),  \* zero range
      Bar(100, 112, 87, 102),   \* body 2, range 25: ratio exactly 0.08
      Bar(100, 113, 87, 102) }  \* body 2, range 26

RECURSIVE SeqsUpTo(_, _)
\* All sequences over S of length at most n.
SeqsUpTo(S, n) ==
    IF n = 0 THEN {<< >>}
    ELSE LET shorter == SeqsUpTo(S, n - 1)
         IN  shorter \cup {Append(sq, x) : sq \in {q \in shorter : Len(q) = n - 1}, x \in S}

ShortInputs == SeqsUpTo(BarSet, MaxBars)

\* Arrays long enough for the default periods (12, 26, 9 and 14): a run of equal
\* candles followed by at most two free ones.  Exact arithmetic on an EMA of
\* period p multiplies the denominator by p + 1 at every bar that moves it, and
\* TLC's integers have 32 bits: two moving bars is what fits.
FlatBar == Bar(10, 10, 10, 10)
TailBars == {BarV(10, Max(10, c), Min(10, c), c, v) : c \in {8, 10, 12}, v \in {1000, 2000}}
FlatLens == {32, 33, 34, 35}
LongInputs ==
    {[i \in 1..m |-> FlatBar] \o t : m \in FlatLens, t \in SeqsUpTo(TailBars, 2)}

\* Candle arrays for the volume markers: a run of volume 730 followed by at
\* most two bars of volume 730, 1330 or 1400.  1330 after nineteen bars of 730
\* is exactly 1.75 times the 20-bar mean, (19 * 730 + 1330) / 20 = 760.
QuietBar == BarV(10, 10, 10, 10, 730)
VolumeBars == {BarV(10, 10, 10, 10, v) : v \in {730, 1330, 1400}}
QuietLens == {34, 35}
VolumeInputs ==
    {[i \in 1..m |-> QuietBar] \o t : m \in QuietLens, t \in SeqsUpTo(VolumeBars, 2)}

\* ------------------------------------------- detectCandlestickPatterns
\* candles[i] of the code is At(cs, i): the code's indexes start at 0.
At(cs, i) == cs[i + 1]

Mark(i, name, pos) == [index |-> i, name |-> name, position |-> pos]

BodySize(c) == Abs(c.close - c.open)

\* Mutant of IsDoji: the ratio is compared with <= 0.08.
IsDoji_orEqual(c) ==
    LET range == c.high - c.low
    IN  range > 0 /\ RLe(RDiv(RInt(BodySize(c)), RInt(range)), RFrac(8, 100))

\* range > 0 && bodySize / range < 0.08
IsDoji(c) ==
    LET range == c.high - c.low
    IN  range > 0 /\ RLt(RDiv(RInt(BodySize(c)), RInt(range)), RFrac(8, 100))

\* Mutant of IsBullishEngulfing: the open may equal the previous close.
IsBullishEngulfing_orEqual(prev, c) ==
    /\ prev.close < prev.open
    /\ c.close > c.open
    /\ c.open <= prev.close
    /\ c.close > prev.open

\* isPrevDown && isCurrUp && candle.open < prev.close && candle.close > prev.open
IsBullishEngulfing(prev, c) ==
    /\ prev.close < prev.open
    /\ c.close > c.open
    /\ c.open < prev.close
    /\ c.close > prev.open

\* Mutant of IsBearishEngulfing: the previous bar is not required to be up.
IsBearishEngulfing_anyPrev(prev, c) ==
    /\ c.close < c.open
    /\ c.open > prev.close
    /\ c.close < prev.open

\* isPrevUp && isCurrDown && candle.open > prev.close && candle.close < prev.open
IsBearishEngulfing(prev, c) ==
    /\ prev.close > prev.open
    /\ c.close < c.open
    /\ c.open > prev.close
    /\ c.close < prev.open

\* Mutant of IsHammer: the down trend is not required.
IsHammer_noTrend(prev2, prev, c) ==
    LET bodyHigh == Max(c.open, c.close)
        bodyLow == Min(c.open, c.close)
        lowerShadow == bodyLow - c.low
        upperShadow == c.high - bodyHigh
    IN  /\ BodySize(c) > 0
        /\ lowerShadow > BodySize(c) * 2
        /\ RLt(RInt(upperShadow), RMul(RInt(BodySize(c)), RFrac(1, 2)))

\* isDownTrend && bodySize > 0 && lowerShadow > bodySize * 2
\*             && upperShadow < bodySize * 0.5
IsHammer(prev2, prev, c) ==
    LET bodyHigh == Max(c.open, c.close)
        bodyLow == Min(c.open, c.close)
        lowerShadow == bodyLow - c.low
        upperShadow == c.high - bodyHigh
    IN  /\ prev.close < prev2.close
        /\ BodySize(c) > 0
        /\ lowerShadow > BodySize(c) * 2
        /\ RLt(RInt(upperShadow), RMul(RInt(BodySize(c)), RFrac(1, 2)))

\* The marks one iteration i >= 2 of the forEach pushes, in the order pushed.
MarksOf(cs, i) ==
    LET c == At(cs, i)
        prev == At(cs, i - 1)
    IN  (IF IsDoji(c) THEN <<Mark(i, "Doji", "top")>> ELSE << >>)
        \o (IF IsBullishEngulfing(prev, c)
            THEN <<Mark(i, "Bullish Engulfing", "bottom")>> ELSE << >>)
        \o (IF IsBearishEngulfing(prev, c)
            THEN <<Mark(i, "Bearish Engulfing", "top")>> ELSE << >>)
        \o (IF IsHammer(At(cs, i - 2), prev, c)
            THEN <<Mark(i, "Hammer", "bottom")>> ELSE << >>)

\* Mutant of PatternsAt: the Doji test runs before the i < 2 return.
PatternsAt_dojiFirst(cs, i) ==
    IF i < 2
    THEN (IF IsDoji(At(cs, i)) THEN <<Mark(i, "Doji", "top")>> ELSE << >>)
    ELSE MarksOf(cs, i)

\* One iteration of candles.forEach: if (i < 2) return; ...
PatternsAt(cs, i) == IF i < 2 THEN << >> ELSE MarksOf(cs, i)

RECURSIVE PatternsUpTo(_, _)
\* The patterns array after the iterations 0 .. i - 1.
PatternsUpTo(cs, i) ==
    IF i = 0 THEN << >> ELSE PatternsUpTo(cs, i - 1) \o PatternsAt(cs, i - 1)

DetectCandlestickPatterns(cs) ==
    IF Len(cs) < 3 THEN << >> ELSE PatternsUpTo(cs, Len(cs))

\* ------------------------------------------------- moving averages
\* candles.map(c => c.close), candles.map(c => c.volume)
Closes(cs) == [i \in 1..Len(cs) |-> RInt(cs[i].close)]
Volumes(cs) == [i \in 1..Len(cs) |-> RInt(cs[i].volume)]
Nulls(n) == [i \in 1..n |-> Null]

\* A loop's variables hold values, not pending expressions: each iteration
\* computes them before the next one starts.
Computed(x) == x = x

RECURSIVE SumLoop(_, _, _, _)
\* for (let i = 0; i < n; i++) sum += data[i]
SumLoop(data, n, i, sum) ==
    IF i >= n THEN sum
    ELSE LET s2 == RAdd(sum, At(data, i))
         IN  CASE Computed(s2) -> SumLoop(data, n, i + 1, s2)

\* The sum of the first n entries of data.
SumFirst(data, n) == SumLoop(data, n, 0, RInt(0))

\* newEma = prices[i] * k + emaArray[emaArray.length - 1] * (1 - k)
EmaStep(price, prevEma, k) ==
    RAdd(RMul(price, k), RMul(prevEma, RSub(RInt(1), k)))

RECURSIVE EmaLoop(_, _, _, _)
\* for (let i = period; i < prices.length; i++) emaArray.push(newEma)
EmaLoop(prices, k, i, emaArray) ==
    IF i >= Len(prices) THEN emaArray
    ELSE LET newEma == EmaStep(At(prices, i), emaArray[Len(emaArray)], k)
         IN  CASE Computed(newEma) -> EmaLoop(prices, k, i + 1, Append(emaArray, newEma))

\* Mutant of CalculateEMA: the series is seeded with the first price, not with
\* the mean of the first period prices.
CalculateEMA_seedFirst(prices, period) ==
    IF Len(prices) < period THEN << >>
    ELSE EmaLoop(prices, RFrac(2, period + 1), period, <<prices[1]>>)

\* calculateEMA of services/geminiService.
CalculateEMA(prices, period) ==
    IF Len(prices) < period THEN << >>
    ELSE EmaLoop(prices, RFrac(2, period + 1), period,
                 <<RDiv(SumFirst(prices, period), RInt(period))>>)

RECURSIVE ChartEmaLoop(_, _, _, _)
ChartEmaLoop(prices, k, i, emaArray) ==
    IF i >= Len(prices) THEN emaArray
    ELSE LET newEma == RAdd(RMul(At(prices, i), k),
                            RMul(emaArray[Len(emaArray)], RSub(RInt(1), k)))
         IN  CASE Computed(newEma) ->
                 ChartEmaLoop(prices, k, i + 1, Append(emaArray, newEma))

\* calculateEMA of components/SparklineChart, a copy of the service's.
ChartCalculateEMA(prices, period) ==
    IF Len(prices) < period THEN << >>
    ELSE ChartEmaLoop(prices, RFrac(2, period + 1), period,
                      <<RDiv(SumFirst(prices, period), RInt(period))>>)

RECURSIVE SmaLoop_noDrop(_, _, _, _, _)
\* Mutant of SmaLoop: the value leaving the window is not subtracted.
SmaLoop_noDrop(data, period, i, sum, sma) ==
    IF i >= Len(data) THEN sma
    ELSE LET s2 == RAdd(sum, At(data, i))
             sma2 == Append(sma, RDiv(s2, RInt(period)))
         IN  CASE Computed(sma2) -> SmaLoop_noDrop(data, period, i + 1, s2, sma2)

RECURSIVE SmaLoop(_, _, _, _, _)
\* sum = sum - data[i - period] + data[i]; sma.push(sum / period)
SmaLoop(data, period, i, sum, sma) ==
    IF i >= Len(data) THEN sma
    ELSE LET s2 == RAdd(RSub(sum, At(data, i - period)), At(data, i))
             sma2 == Append(sma, RDiv(s2, RInt(period)))
         IN  CASE Computed(sma2) -> SmaLoop(data, period, i + 1, s2, sma2)

\* calculateSMA(data, period)
CalculateSMA(data, period) ==
    IF Len(data) < period THEN Nulls(Len(data))
    ELSE LET sum == SumFirst(data, period)
         IN  SmaLoop(data, period, period, sum,
                     Append(Nulls(period - 1), RDiv(sum, RInt(period))))

\* ---------------------------------------------------------------- RSI
\* const change = prices[i] - prices[i - 1]
Change(prices, i) == RSub(At(prices, i), At(prices, i - 1))
\* Mutant of Positive: any non-zero change counts as a gain.
Positive_anyChange(x) == x.n # 0

\* change > 0
Positive(x) == x.n > 0
Negative(x) == x.n < 0

RECURSIVE SeedLoop(_, _, _, _, _)
\* for (let i = 1; i <= period; i++) { if (change > 0) gains += change; else losses -= change; }
SeedLoop(prices, period, i, gains, losses) ==
    IF i > period THEN [gains |-> gains, losses |-> losses]
    ELSE LET change == Change(prices, i)
             g == IF Positive(change) THEN RAdd(gains, change) ELSE gains
             l == IF Positive(change) THEN losses ELSE RSub(losses, change)
         IN  CASE Computed(g) /\ Computed(l) -> SeedLoop(prices, period, i + 1, g, l)

\* avgGain = gains / period, avgLoss = losses / period after the seeding loop
SeedAverages(prices, period) ==
    LET seed == SeedLoop(prices, period, 1, RInt(0), RInt(0))
    IN  [gain |-> RDiv(seed.gains, RInt(period)), loss |-> RDiv(seed.losses, RInt(period))]

\* avg = (avg * (period - 1) + current) / period
Wilder(avg, current, period) ==
    RDiv(RAdd(RMul(avg, RInt(period - 1)), current), RInt(period))
CurrentGain(ch) == IF Positive(ch) THEN ch ELSE RInt(0)
CurrentLoss(ch) == IF Negative(ch) THEN RNeg(ch) ELSE RInt(0)

\* 100 - (100 / (1 + g / l)), or 100 when l is zero
GetRSI(g, l) ==
    IF l.n = 0 THEN RInt(100)
    ELSE RSub(RInt(100), RDiv(RInt(100), RAdd(RInt(1), RDiv(g, l))))

RECURSIVE RsiSmooth(_, _, _, _, _)
\* The smoothing loop of calculateRSI from index i on: the final averages.
RsiSmooth(prices, period, i, avgGain, avgLoss) ==
    IF i >= Len(prices) THEN [gain |-> avgGain, loss |-> avgLoss]
    ELSE LET g == Wilder(avgGain, CurrentGain(Change(prices, i)), period)
             l == Wilder(avgLoss, CurrentLoss(Change(prices, i)), period)
         IN  CASE Computed(g) /\ Computed(l) -> RsiSmooth(prices, period, i + 1, g, l)

\* Mutant of CalculateRSI: the smoothing loop starts at period, so the change at
\* index period is counted twice.
CalculateRSI_recount(cs, period) ==
    IF Len(cs) <= period THEN Null
    ELSE LET prices == Closes(cs)
             seed == SeedAverages(prices, period)
             avg == RsiSmooth(prices, period, period, seed.gain, seed.loss)
         IN  IF avg.loss.n = 0 THEN RInt(100)
             ELSE Round2(RSub(RInt(100),
                          RDiv(RInt(100), RAdd(RInt(1), RDiv(avg.gain, avg.loss)))))

\* Mutant of CalculateRSI: period + 1 candles are still too few.
CalculateRSI_lateGate(cs, period) ==
    IF Len(cs) <= period + 1 THEN Null
    ELSE LET prices == Closes(cs)
             seed == SeedAverages(prices, period)
             avg == RsiSmooth(prices, period, period + 1, seed.gain, seed.loss)
         IN  IF avg.loss.n = 0 THEN RInt(100)
             ELSE Round2(RSub(RInt(100),
                          RDiv(RInt(100), RAdd(RInt(1), RDiv(avg.gain, avg.loss)))))

\* calculateRSI(candles, period) of services/geminiService.
CalculateRSI(cs, period) ==
    IF Len(cs) <= period THEN Null
    ELSE LET prices == Closes(cs)
             seed == SeedAverages(prices, period)
             avg == RsiSmooth(prices, period, period + 1, seed.gain, seed.loss)
         IN  IF avg.loss.n = 0 THEN RInt(100)
             ELSE Round2(RSub(RInt(100),
                          RDiv(RInt(100), RAdd(RInt(1), RDiv(avg.gain, avg.loss)))))

RECURSIVE RsiHistoryLoop(_, _, _, _, _, _)
\* The loop of calculateRSIHistory from index i on.
RsiHistoryLoop(prices, period, i, avgGain, avgLoss, rsiValues) ==
    IF i >= Len(prices) THEN rsiValues
    ELSE LET g == Wilder(avgGain, CurrentGain(Change(prices, i)), period)
             l == Wilder(avgLoss, CurrentLoss(Change(prices, i)), period)
             r == Append(rsiValues, GetRSI(g, l))
         IN  CASE Computed(g) /\ Computed(l) /\ Computed(r) ->
                 RsiHistoryLoop(prices, period, i + 1, g, l, r)

\* calculateRSIHistory(prices, period) of components/SparklineChart.
CalculateRSIHistory(prices, period) ==
    IF Len(prices) <= period THEN Nulls(Len(prices))
    ELSE LET seed == SeedAverages(prices, period)
         IN  RsiHistoryLoop(prices, period, period + 1, seed.gain, seed.loss,
                            Append(Nulls(period), GetRSI(seed.gain, seed.loss)))

\* --------------------------------------------------------------- MACD
\* calculateMACD returned null.
NullMACD == [isNull |-> TRUE, macdLine |-> Null, signalLine |-> Null, histogram |-> Null]

\* calculateMACD past its length test.
MacdLatest(prices, fastPeriod, slowPeriod, signalPeriod) ==
    LET emaFast == CalculateEMA(prices, fastPeriod)
        emaSlow == CalculateEMA(prices, slowPeriod)
        \* emaFast.slice(slowPeriod - fastPeriod).map((val, index) => val - emaSlow[index])
        macdLineValues ==
            [j \in 1..Max(Len(emaFast) - (slowPeriod - fastPeriod), 0) |->
                RSub(emaFast[j + (slowPeriod - fastPeriod)], emaSlow[j])]
        signalLineValues == CalculateEMA(macdLineValues, signalPeriod)
    IN  IF Len(macdLineValues) < signalPeriod THEN NullMACD
        ELSE IF Len(macdLineValues) = 0 \/ Len(signalLineValues) = 0 THEN NullMACD
        ELSE LET lastMacdLine == macdLineValues[Len(macdLineValues)]
                 lastSignalLine == signalLineValues[Len(signalLineValues)]
             IN  [isNull |-> FALSE,
                  macdLine |-> Round2(lastMacdLine),
                  signalLine |-> Round2(lastSignalLine),
                  histogram |-> Round2(RSub(lastMacdLine, lastSignalLine))]

\* Mutant of CalculateMACD: the length test also refuses exactly
\* slowPeriod + signalPeriod prices.
CalculateMACD_oneMore(cs, fastPeriod, slowPeriod, signalPeriod) ==
    IF Len(cs) <= slowPeriod + signalPeriod THEN NullMACD
    ELSE MacdLatest(Closes(cs), fastPeriod, slowPeriod, signalPeriod)

\* calculateMACD(candles, fastPeriod, slowPeriod, signalPeriod) of the service.
CalculateMACD(cs, fastPeriod, slowPeriod, signalPeriod) ==
    IF Len(cs) < slowPeriod + signalPeriod THEN NullMACD
    ELSE MacdLatest(Closes(cs), fastPeriod, slowPeriod, signalPeriod)

\* The three series of calculateMACDHistory, given the MACD line values.
MacdSeries(macdLineValues, slowPeriod, signalPeriod) ==
    LET signalLineValues == ChartCalculateEMA(macdLineValues, signalPeriod)
        histogramValues ==
            [j \in 1..Len(signalLineValues) |->
                RSub(macdLineValues[j + signalPeriod - 1], signalLineValues[j])]
        macdOffset == slowPeriod - 1
        signalOffset == macdOffset + signalPeriod - 1
    IN  [macdLine |-> Nulls(macdOffset) \o macdLineValues,
         signalLine |-> Nulls(signalOffset) \o signalLineValues,
         histogram |-> Nulls(signalOffset) \o histogramValues]

\* Mutant of CalculateMACDHistory: the fast EMA is not shifted by
\* slowPeriod - fastPeriod before the subtraction.
CalculateMACDHistory_unaligned(prices, fastPeriod, slowPeriod, signalPeriod) ==
    LET emaFast == ChartCalculateEMA(prices, fastPeriod)
        emaSlow == ChartCalculateEMA(prices, slowPeriod)
    IN  MacdSeries([j \in 1..Len(emaSlow) |-> RSub(emaFast[j], emaSlow[j])],
                   slowPeriod, signalPeriod)

\* calculateMACDHistory(prices, fastPeriod, slowPeriod, signalPeriod)
CalculateMACDHistory(prices, fastPeriod, slowPeriod, signalPeriod) ==
    LET emaFast == ChartCalculateEMA(prices, fastPeriod)
        emaSlow == ChartCalculateEMA(prices, slowPeriod)
    IN  MacdSeries([j \in 1..Len(emaSlow) |->
                       RSub(emaFast[j + (slowPeriod - fastPeriod)], emaSlow[j])],
                   slowPeriod, signalPeriod)

\* ------------------------------------------- SparklineChart's useMemo
\* What useMemo returns below the gate.
EmptyMemo ==
    [buySignals |-> << >>, sellSignals |-> << >>, pointRadii |-> << >>,
     macdHistory |-> [macdLine |-> << >>, signalLine |-> << >>, histogram |-> << >>],
     rsiHistory |-> << >>, detectedPatterns |-> << >>, volumeSma |-> << >>]

\* Mutant of Crossover: the lines must have been strictly apart at i - 1.
Crossover_strictPrev(macd, i, prices, buy) ==
    LET prevMacd == At(macd.macdLine, i - 1)
        currMacd == At(macd.macdLine, i)
        prevSignal == At(macd.signalLine, i - 1)
        currSignal == At(macd.signalLine, i)
    IN  IF IsNull(prevMacd) \/ IsNull(currMacd) \/ IsNull(prevSignal) \/ IsNull(currSignal)
        THEN Null
        ELSE IF buy
             THEN (IF RLt(prevMacd, prevSignal) /\ RLt(currSignal, currMacd)
                   THEN At(prices, i) ELSE Null)
             ELSE (IF RLt(prevSignal, prevMacd) /\ RLt(currMacd, currSignal)
                   THEN At(prices, i) ELSE Null)

\* buySignals[i] / sellSignals[i] of the crossover loop, for i >= 1.
Crossover(macd, i, prices, buy) ==
    LET prevMacd == At(macd.macdLine, i - 1)
        currMacd == At(macd.macdLine, i)
        prevSignal == At(macd.signalLine, i - 1)
        currSignal == At(macd.signalLine, i)
    IN  IF IsNull(prevMacd) \/ IsNull(currMacd) \/ IsNull(prevSignal) \/ IsNull(currSignal)
        THEN Null
        ELSE IF buy
             THEN (IF RLe(prevMacd, prevSignal) /\ RLt(currSignal, currMacd)
                   THEN At(prices, i) ELSE Null)
             ELSE (IF RLe(prevSignal, prevMacd) /\ RLt(currMacd, currSignal)
                   THEN At(prices, i) ELSE Null)

\* The body of useMemo past the gate; volumeSma is its local, kept for reference.
ComputeMemo(cs) ==
    LET prices == Closes(cs)
        volumes == Volumes(cs)
        macdHistory == CalculateMACDHistory(prices, FastPeriod, SlowPeriod, SignalPeriod)
        rsiHistory == CalculateRSIHistory(prices, RsiPeriod)
        volumeSma == CalculateSMA(volumes, VolumeSmaPeriod)
    IN  [buySignals |->
            [k \in 1..Len(prices) |->
                IF k = 1 THEN Null ELSE Crossover(macdHistory, k - 1, prices, TRUE)],
         sellSignals |->
            [k \in 1..Len(prices) |->
                IF k = 1 THEN Null ELSE Crossover(macdHistory, k - 1, prices, FALSE)],
         pointRadii |->
            [k \in 1..Len(cs) |->
                IF ~IsNull(volumeSma[k])
                   /\ RLt(RMul(volumeSma[k], RFrac(175, 100)), RInt(cs[k].volume))
                THEN RFrac(5, 2) ELSE RInt(0)],
         macdHistory |-> macdHistory,
         rsiHistory |-> rsiHistory,
         detectedPatterns |-> DetectCandlestickPatterns(cs),
         volumeSma |-> volumeSma]

\* Mutant of UseMemo: the gate lets 34 candles through.
UseMemo_gate34(cs) ==
    IF Len(cs) < ChartMinBars - 1 THEN EmptyMemo ELSE ComputeMemo(cs)

\* The function passed to useMemo, for the candles cs.
UseMemo(cs) ==
    IF Len(cs) < ChartMinBars THEN EmptyMemo ELSE ComputeMemo(cs)

\* ---------------------------------------------------- the calls explored
Inputs == ShortInputs \cup LongInputs \cup VolumeInputs

\* <<fastPeriod, slowPeriod, signalPeriod>>: the defaults, and short periods
\* whose threshold slowPeriod + signalPeriod short arrays reach.
DefaultPeriods == <<FastPeriod, SlowPeriod, SignalPeriod>>
MacdPeriods == {DefaultPeriods, <<1, 2, 1>>, <<1, 2, 2>>, <<2, 3, 1>>}

\* The RSI's default period, and short periods whose smoothing loop short
\* arrays reach.
RsiPeriods == {RsiPeriod, 1, 2}

IndInit ==
    /\ SchedInit
    /\ ReInit
    /\ AppInit
    /\ candles \in Inputs
    /\ result = NoResult

\* One call is explored on each input: a call is made while none was made.
\* detectCandlestickPatterns(candles)
DetectPatterns ==
    /\ result = NoResult
    /\ result' = [fn |-> "patterns", arg |-> 0, val |-> DetectCandlestickPatterns(candles)]
    /\ UNCHANGED <<candles, vars, reVars, appVars>>

\* The service's calculateEMA(closes, p)
CalcEMA(p) ==
    /\ result = NoResult
    /\ result' = [fn |-> "ema", arg |-> p, val |-> CalculateEMA(Closes(candles), p)]
    /\ UNCHANGED <<candles, vars, reVars, appVars>>

\* The chart's calculateEMA(closes, p)
CalcChartEMA(p) ==
    /\ result = NoResult
    /\ result' = [fn |-> "chartEma", arg |-> p,
                  val |-> ChartCalculateEMA(Closes(candles), p)]
    /\ UNCHANGED <<candles, vars, reVars, appVars>>

\* calculateRSI(candles, period): with the default, as getStockSignal and
\* getChatResponse call it, and with short periods
CalcRSI(p) ==
    /\ result = NoResult
    /\ result' = [fn |-> "rsi", arg |-> p, val |-> CalculateRSI(candles, p)]
    /\ UNCHANGED <<candles, vars, reVars, appVars>>

\* calculateMACD(candles, fast, slow, signal): with the defaults, as
\* getStockSignal and getChatResponse call it, and with short periods
CalcMACD(per) ==
    /\ result = NoResult
    /\ result' = [fn |-> "macd", arg |-> per,
                  val |-> CalculateMACD(candles, per[1], per[2], per[3])]
    /\ UNCHANGED <<candles, vars, reVars, appVars>>

\* SparklineChart renders candles: useMemo runs its function
RenderChart ==
    /\ result = NoResult
    /\ result' = [fn |-> "memo", arg |-> 0, val |-> UseMemo(candles)]
    /\ UNCHANGED <<candles, vars, reVars, appVars>>

IndNext ==
    \/ DetectPatterns
    \/ \E p \in 1..MaxPeriod : CalcEMA(p)
    \/ \E p \in 1..MaxPeriod : CalcChartEMA(p)
    \/ \E p \in RsiPeriods : CalcRSI(p)
    \/ \E per \in MacdPeriods : CalcMACD(per)
    \/ RenderChart

IndSpec == IndInit /\ [][IndNext]_indVars

\* ============================================================ application
\* The handlers of App and the steps of the tasks they submit.

\* handleRefreshAll, from the Refresh All button (disabled={isRefreshingAll})
HandleRefreshAll ==
    /\ ~IsRefreshingAll
    /\ Len(apiQueue) + NumStocks + 1 <= MaxQueue
    /\ ScheduleAll(stockData, SignalTasks(NumStocks) \o <<NewsTask>>)
    /\ sentimentTimer' = (sentimentTimer \/ stockData' # stockData)
    /\ UNCHANGED <<apiTimer, outcome, isChatLoading, vars, indVars, reVars>>

\* The updater of the interval callback, applied to one symbol.
CountDown(st) ==
    IF st.status = "ONLINE"
    THEN IF st.countdown - 1 <= 0
         THEN [st EXCEPT !.status = "REFRESHING", !.countdown = 0]
         ELSE [st EXCEPT !.countdown = st.countdown - 1]
    ELSE st
\* symbolsToFetch as the updater fills it, in key order
RECURSIVE Expiring(_)
Expiring(n) ==
    IF n = 0 THEN << >>
    ELSE IF stockData[n].status = "ONLINE" /\ stockData[n].countdown - 1 <= 0
         THEN Append(Expiring(n - 1), SignalTask(n))
         ELSE Expiring(n - 1)

\* The setInterval callback.  React runs the updater passed to setStockData
\* either inside the call or later, when it renders: in the second case
\* symbolsToFetch is still empty when the callback tests its length.
CountdownTick(deferred) ==
    /\ Len(apiQueue) + Len(Expiring(NumStocks)) <= MaxQueue
    /\ ScheduleAll([s \in STOCKS |-> CountDown(stockData[s])],
                   IF deferred THEN << >> ELSE Expiring(NumStocks))
    /\ sentimentTimer' = TRUE
    /\ UNCHANGED <<apiTimer, outcome, isChatLoading, vars, indVars, reVars>>

\* Messages in all chat histories together
RECURSIVE ChatTotal(_)
ChatTotal(n) == IF n = 0 THEN 0 ELSE ChatTotal(n - 1) + stockData[n].chat

\* handleSendMessage(symbol, message)
HandleSendMessage(s) ==
    /\ ~isChatLoading
    /\ ChatTotal(NumStocks) < 2 * MaxChat
    /\ Len(apiQueue) + 1 <= MaxQueue
    /\ isChatLoading' = TRUE
    /\ ScheduleAll([stockData EXCEPT ![s].chat = stockData[s].chat + 2], <<ChatTask(s)>>)
    /\ sentimentTimer' = TRUE
    /\ UNCHANGED <<apiTimer, outcome, vars, indVars, reVars>>

\* Symbols that have a signal and are ONLINE
SignalsForSentiment ==
    {s \in STOCKS : stockData[s].signal # 0 /\ stockData[s].status = "ONLINE"}

\* The debounce timer of the sentiment effect fires.
SentimentFires ==
    /\ sentimentTimer
    /\ Len(apiQueue) + 1 <= MaxQueue
    /\ sentimentTimer' = FALSE
    /\ ScheduleAll(stockData,
                   IF 2 * Cardinality(SignalsForSentiment) > NumStocks
                   THEN <<SentimentTask>> ELSE << >>)
    /\ UNCHANGED <<apiTimer, outcome, isChatLoading, vars, indVars, reVars>>

\* New candles differ from the ones held.
Fresh(c) == IF c = 1 THEN 2 ELSE 1

\* fetchStockCandles resolves (it never rejects); fetchSignal goes on to
\* getStockSignal, which awaits ai.models.generateContent.
CandlesArrive ==
    /\ apiCall.kind = "signal"
    /\ apiCall.stage = "candles"
    /\ apiCall' = [apiCall EXCEPT !.stage = "service",
                                  !.candles = Fresh(stockData[apiCall.sym].candles)]
    /\ requests' = requests + 1
    /\ UNCHANGED <<stockData, apiQueue, apiProcessing, apiTimer, outcome,
                   isChatLoading, sentimentTimer, vars, indVars, reVars>>

\* fetchSignal without its catch block: a failure leaves stockData as it is.
Completed_noCatch(sd, c, ok) ==
    IF c.kind = "signal" /\ ok
    THEN [sd EXCEPT ![c.sym].candles = c.candles, ![c.sym].signal = c.candles,
                    ![c.sym].status = "ONLINE",
                    ![c.sym].countdown = REFRESH_INTERVAL_SECONDS,
                    ![c.sym].error = FALSE]
    ELSE sd

\* stockData after the running task's continuation: fetchSignal's success
\* update or its catch; handleSendMessage replaces the loading message.
Completed(sd, c, ok) ==
    IF c.kind = "signal"
    THEN IF ok
         THEN [sd EXCEPT ![c.sym].candles = c.candles, ![c.sym].signal = c.candles,
                         ![c.sym].status = "ONLINE",
                         ![c.sym].countdown = REFRESH_INTERVAL_SECONDS,
                         ![c.sym].error = FALSE]
         ELSE [sd EXCEPT ![c.sym].status = "OFFLINE",
                         ![c.sym].countdown = REFRESH_INTERVAL_SECONDS,
                         ![c.sym].error = TRUE]
    ELSE sd
\* How the task's promise settles: fetchSignal catches everything, the service
\* functions rethrow as AIError.
Settlement(c, ok) == IF c.kind = "signal" \/ ok THEN "resolved" ELSE "rejected"

\* The service answers the outstanding request or fails it; the task's promise
\* settles, processQueue hands the result on and sets the MIN_INTERVAL timer.
ServiceResponds(ok) ==
    /\ apiCall.stage = "service"
    /\ requests' = requests - 1
    /\ stockData' = Completed(stockData, apiCall, ok)
    /\ outcome' = Settlement(apiCall, ok)
    /\ isChatLoading' = IF apiCall.kind = "chat" THEN FALSE ELSE isChatLoading
    /\ sentimentTimer' = (sentimentTimer \/ apiCall.kind \in {"signal", "chat"})
    /\ apiCall' = NoCall
    /\ apiTimer' = TRUE
    /\ UNCHANGED <<apiQueue, apiProcessing, vars, indVars, reVars>>

\* setTimeout(processQueue, MIN_INTERVAL) fires.
IntervalElapses ==
    /\ apiTimer
    /\ apiTimer' = FALSE
    /\ IF apiQueue = << >>
       THEN /\ apiProcessing' = FALSE
            /\ UNCHANGED <<apiQueue, apiCall, requests, stockData, sentimentTimer>>
       ELSE /\ apiProcessing' = TRUE
            /\ apiCall' = Started(Head(apiQueue))
            /\ apiQueue' = Tail(apiQueue)
            /\ stockData' = Begin(stockData, Head(apiQueue))
            /\ requests' = requests + Issued(Head(apiQueue))
            /\ sentimentTimer' = (sentimentTimer \/ Head(apiQueue).kind = "signal")
    /\ UNCHANGED <<outcome, isChatLoading, vars, indVars, reVars>>

AppNext ==
    \/ HandleRefreshAll
    \/ \E deferred \in BOOLEAN : CountdownTick(deferred)
    \/ \E s \in STOCKS : HandleSendMessage(s)
    \/ SentimentFires
    \/ CandlesArrive
    \/ \E ok \in BOOLEAN : ServiceResponds(ok)
    \/ IntervalElapses

AppSpec == Init /\ [][AppNext]_appVars

\* ------------------------------------------------------------------ claims
Settled(t) == status[t] \in {"resolved", "failed"}
Running == {t \in Tasks : status[t] = "running"}
Last(sq) == sq[Len(sq)]

\* C1: in every reachable state at most one submitted operation is in flight
\* (invoked, outcome not yet delivered), whatever the number and interleaving
\* of submissions.
C1_AtMostOneInFlight ==
    /\ Cardinality(inFlight) <= 1
    /\ Cardinality(Running) <= 1
    /\ Len(invoked) - Len(delivered) \in {0, 1}

\* A task is in flight after an earlier one was delivered, while tasks submitted
\* during a running task and during the interval wait sit in the queue.
C1_Witness ==
    /\ Cardinality(inFlight) = 1
    /\ delivered # << >>
    /\ \E a, b \in Tasks :
          /\ a # b
          /\ submittedIn[a] = "running"
          /\ submittedIn[b] = "waiting"
          /\ status[b] = "queued"

\* C2: tasks execute in strict submission order: a task submitted earlier is
\* invoked and has its outcome delivered before a later one is invoked, and no
\* queued task is reordered, skipped or cancelled.
C2_SubmissionOrder ==
    /\ \A a, b \in Tasks :
          (a < b /\ status[b] \in {"running", "resolved", "failed"}) => Settled(a)
    /\ invoked = [i \in 1..Len(invoked) |-> i]
    /\ delivered = [i \in 1..Len(delivered) |-> i]
    /\ requestQueue = [i \in 1..(submitted - Len(invoked)) |-> Len(invoked) + i]

\* Three tasks submitted in a burst: the first two delivered, the third running.
C2_Witness ==
    /\ Len(delivered) >= 2
    /\ \E b \in Tasks : status[b] = "running" /\ submittedIn[b] = "running"
    /\ submittedIn[2] = "running"

\* C3: every task but the first invoked is invoked no earlier than MIN_INTERVAL
\* after the outcome of the task invoked before it was delivered, and so no
\* earlier than MIN_INTERVAL after that task was started.
C3_MinInterval ==
    \A i \in 2..Len(invoked) :
        LET g == startGap[invoked[i]]
        IN  /\ g.prev = invoked[i - 1]
            /\ g.settle >= MIN_INTERVAL
            /\ g.start >= MIN_INTERVAL

\* A burst of three: the second and third were queued while the first ran, and
\* all have been invoked.
C3_Witness ==
    /\ Len(invoked) >= 3
    /\ submittedIn[2] = "running"
    /\ submittedIn[3] = "running"
    /\ startedBy[3] = "timer"

\* C4: when a task's operation fails, the error goes to that task's handle only,
\* the drain chain goes on (the interval timer is set, the flag stays up, the
\* queue is untouched) and every task queued behind it is eventually invoked and
\* has its own outcome delivered.
C4_FailureIsolation ==
    /\ [][\A t \in Tasks :
            (status[t] = "running" /\ status'[t] = "failed") =>
                /\ handle'[t].kind = "error"
                /\ handle'[t] = opResult'[t]
                /\ \A u \in Tasks \ {t} : handle'[u] = handle[u] /\ status'[u] = status[u]
                /\ isProcessing'
                /\ requestQueue' = requestQueue
                /\ timers' = <<MIN_INTERVAL>>]_vars
    /\ \A u \in Tasks :
          ((\E t \in Tasks : status[t] = "failed") /\ status[u] = "queued") ~>
              (invocations[u] = 1 /\ handle[u] = opResult[u] /\ handle[u] # Pending)

\* Three submissions, the second failed, the third resolved.
C4_Witness ==
    /\ status[2] = "failed"
    /\ status[3] = "resolved"
    /\ submittedIn[3] = "running"
    /\ handle[3].kind = "value"

\* The moves of a task's state the scheduler allows.  A submission to an idle
\* scheduler pushes the task and shifts it in the same callback, so it is seen
\* to go from "new" to "running".
TaskMoves ==
    {<<"new", "queued">>, <<"new", "running">>, <<"queued", "running">>,
     <<"running", "resolved">>, <<"running", "failed">>}

\* C5: every submitted operation is invoked exactly once and its handle settled
\* exactly once, with the very value or error its own operation produced; a task
\* only moves Queued -> Running -> Resolved or Failed, never back, and a settled
\* handle never changes.
C5_ExactlyOnce ==
    /\ [](\A t \in Tasks :
            /\ invocations[t] <= 1
            /\ settleCalls[t] <= 1
            /\ status[t] \in {"new", "queued"} =>
                  (invocations[t] = 0 /\ settleCalls[t] = 0 /\ handle[t] = Pending)
            /\ status[t] = "running" =>
                  (invocations[t] = 1 /\ settleCalls[t] = 0 /\ handle[t] = Pending)
            /\ Settled(t) =>
                  /\ invocations[t] = 1
                  /\ settleCalls[t] = 1
                  /\ handle[t] \in Outcomes
                  /\ handle[t] = opResult[t]
                  /\ (status[t] = "resolved") = (handle[t].kind = "value"))
    /\ [][\A t \in Tasks :
            /\ status'[t] # status[t] => <<status[t], status'[t]>> \in TaskMoves
            /\ handle[t] # Pending => handle'[t] = handle[t]]_vars
    /\ \A t \in Tasks :
          (status[t] # "new") ~> (invocations[t] = 1 /\ settleCalls[t] = 1)

\* Every submitted task has been invoked once and settled once, one with a value
\* and one with an error, each handle holding its own operation's outcome.
C5_Witness ==
    /\ \A t \in Tasks : Settled(t) /\ invocations[t] = 1 /\ settleCalls[t] = 1
    /\ handle[1] = [kind |-> "value", v |-> 1]
    /\ handle[2] = [kind |-> "error", v |-> 2]

\* C6: if every invoked operation eventually completes and timers eventually
\* fire, every submitted task is eventually invoked and its handle eventually
\* settled, however submissions interleave with running tasks and timers.
C6_Liveness ==
    \A t \in Tasks :
        (status[t] # "new") ~> (invocations[t] >= 1 /\ handle[t] \in Outcomes)

\* Tasks submitted while a task ran and while the timer was pending, all settled.
C6_Witness ==
    /\ \E a, b \in Tasks : submittedIn[a] = "running" /\ submittedIn[b] = "waiting"
    /\ \A t \in Tasks : handle[t] \in Outcomes

\* The step is the call scheduleApiCall for task t.
IsSubmit(t) == status[t] = "new" /\ status'[t] # "new"

\* C7: a submission to an idle scheduler starts a drain chain and invokes the
\* submitted operation in the same call, with no interval wait; a submission
\* while a chain is active only appends the task at the tail of the queue: no
\* second chain, the in-flight task and the queued tasks' order unchanged.
C7_SubmitEffect ==
    [][\A t \in Tasks : IsSubmit(t) =>
          IF ~isProcessing
          THEN /\ isProcessing'
               /\ inFlight' = {t}
               /\ status'[t] = "running"
               /\ invoked' = Append(invoked, t)
               /\ startedBy'[t] = "submit"
               /\ requestQueue' = << >>
               /\ timers = << >> /\ timers' = << >>
          ELSE /\ isProcessing'
               /\ requestQueue' = Append(requestQueue, t)
               /\ status'[t] = "queued"
               /\ inFlight' = inFlight
               /\ invoked' = invoked
               /\ timers' = timers
               /\ \A u \in Tasks \ {t} : status'[u] = status[u]]_vars

\* One task was started by its own submission; two more, submitted while it
\* ran, sit in the queue in their order of submission.
C7_Witness ==
    /\ startedBy[1] = "submit"
    /\ status[1] = "running"
    /\ Len(requestQueue) >= 2
    /\ requestQueue[1] < requestQueue[2]

\* C8: after a task's outcome is delivered the scheduler waits one full
\* MIN_INTERVAL before looking at the queue again, even when the queue is empty:
\* during the wait isProcessing stays true, and a task submitted in that window
\* is not invoked at submission but only when the timer fires.
C8_WaitsFullInterval ==
    /\ [](timers # << >> => (isProcessing /\ inFlight = {} /\ Len(timers) = 1))
    /\ [][/\ delivered' # delivered =>
               (timers' = <<MIN_INTERVAL>> /\ isProcessing' /\ invoked' = invoked)
          /\ (timers # << >> /\ submitted' # submitted) =>
               (invoked' = invoked /\ timers' = timers /\ isProcessing'
                /\ requestQueue' = Append(requestQueue, submitted'))
          /\ (timers # << >> /\ (invoked' # invoked \/ ~isProcessing')) =>
               (timers = <<0>> /\ timers' = << >> /\ sinceSettle >= MIN_INTERVAL)
          /\ (timers # << >> /\ invoked' # invoked) =>
               startedBy'[Last(invoked')] = "timer"]_vars

\* The queue was empty when the outcome was delivered; a task submitted during
\* the wait was invoked by the timer.
C8_Witness ==
    \E t \in Tasks :
        /\ submittedIn[t] = "waiting"
        /\ startedBy[t] = "timer"
        /\ startGap[t].prev = t - 1
        /\ submittedIn[t - 1] = "idle"

\* C9: the scheduler starts with an empty queue and isProcessing false; the
\* first submission sets isProcessing; it is cleared only by a timer callback
\* that finds the queue empty; once the queue has drained and submissions have
\* stopped it is eventually cleared, and a later submission starts a new chain.
C9_Lifecycle ==
    /\ (requestQueue = << >> /\ ~isProcessing /\ inFlight = {} /\ timers = << >>)
    /\ [][/\ (submitted = 0 /\ submitted' = 1) => (~isProcessing /\ isProcessing')
          /\ (isProcessing /\ ~isProcessing') =>
               (requestQueue = << >> /\ inFlight = {} /\ timers = <<0>>
                /\ timers' = << >>)
          /\ (~isProcessing /\ submitted' # submitted) =>
               (isProcessing' /\ inFlight' = {submitted'}
                /\ startedBy'[submitted'] = "submit")]_vars
    /\ isProcessing ~> ~isProcessing
    /\ <>[](~isProcessing /\ requestQueue = << >>)

\* The scheduler went idle after a first chain and a later submission started
\* a new one.
C9_Witness ==
    \E t \in Tasks :
        /\ t > 1
        /\ startedBy[t] = "submit"
        /\ submittedIn[t] = "idle"
        /\ Settled(t - 1)
        /\ isProcessing

\* C10: while the operation in flight has not completed the scheduler is
\* stalled: no other task, queued behind it or submitted later, is invoked, no
\* outcome is delivered, no timer runs and isProcessing stays true; the only way
\* out of the stall is the operation's own completion.
C10_Stall ==
    /\ [](inFlight # {} => (isProcessing /\ timers = << >>))
    /\ [][\A t \in Tasks : (t \in inFlight /\ t \in inFlight') =>
            /\ isProcessing'
            /\ invoked' = invoked
            /\ delivered' = delivered
            /\ inFlight' = inFlight
            /\ timers' = << >>
            /\ \A u \in Tasks : status[u] = "queued" => status'[u] = "queued"]_vars

\* An operation has been in flight for MIN_INTERVAL or more with tasks queued
\* behind it, one of them submitted after the first, and none was invoked.
C10_Witness ==
    /\ inFlight = {1}
    /\ sinceStart >= MIN_INTERVAL
    /\ Len(requestQueue) >= 2
    /\ Last(invoked) = 1
    /\ isProcessing

\* ------------------------------------------------------- pattern claims
\* The elements of a sequence.
Range(sq) == {sq[k] : k \in 1..Len(sq)}

\* detectCandlestickPatterns has just been applied to candles.
Detected == result.fn = "patterns"

\* The claim's example, but for bar 2's open: bar 1 is 100 -> 90 and bar 2
\* closes at 110.
C11_Example ==
    /\ Len(candles) = 3
    /\ At(candles, 1).open = 100 /\ At(candles, 1).close = 90
    /\ At(candles, 2).close = 110

\* C11 as stated: with bar 1 open=100, close=90 and bar 2 open=90, close=110
\* the detector emits a Bullish Engulfing mark at index 2 with anchor bottom.
C11_AsStated ==
    (Detected /\ C11_Example /\ At(candles, 2).open = 90) =>
        Mark(2, "Bullish Engulfing", "bottom") \in Range(result.val)

\* C11 amended: with bar 1 open=100, close=90 and bar 2 close=110, the detector
\* emits a Bullish Engulfing mark at index 2 with anchor bottom when bar 2 opens
\* strictly below 90, and emits no Bullish Engulfing mark when it opens at 90.
C11_EngulfingExample ==
    (Detected /\ C11_Example) =>
        /\ At(candles, 2).open < 90 =>
              Mark(2, "Bullish Engulfing", "bottom") \in Range(result.val)
        /\ At(candles, 2).open = 90 =>
              \A m \in Range(result.val) : m.name # "Bullish Engulfing"

\* Bar 2 opens at 80 and the mark is emitted.
C11_Witness ==
    /\ Detected /\ C11_Example
    /\ At(candles, 2).open = 80
    /\ Mark(2, "Bullish Engulfing", "bottom") \in Range(result.val)

\* C12: at every index i >= 2 a Bullish Engulfing mark (anchor bottom) is emitted
\* exactly when the previous bar closed below its open, the current bar closed
\* above its open, current open < previous close and current close > previous
\* open; a Bearish Engulfing mark (anchor top) exactly under the mirrored
\* conditions; and no engulfing mark carries another anchor.
C12_Engulfing ==
    Detected =>
        /\ \A i \in 2..(Len(candles) - 1) :
              LET c == At(candles, i)
                  prev == At(candles, i - 1)
              IN  /\ (Mark(i, "Bullish Engulfing", "bottom") \in Range(result.val))
                        = (/\ prev.close < prev.open /\ c.close > c.open
                           /\ c.open < prev.close /\ c.close > prev.open)
                  /\ (Mark(i, "Bearish Engulfing", "top") \in Range(result.val))
                        = (/\ prev.close > prev.open /\ c.close < c.open
                           /\ c.open > prev.close /\ c.close < prev.open)
        /\ \A m \in Range(result.val) :
              /\ m.name = "Bullish Engulfing" => m.position = "bottom"
              /\ m.name = "Bearish Engulfing" => m.position = "top"

\* A down bar opening above the close of an up bar and closing below its open
\* got the Bearish Engulfing mark.
C12_Witness ==
    /\ Detected
    /\ Len(candles) = 3
    /\ Mark(2, "Bearish Engulfing", "top") \in Range(result.val)
    /\ At(candles, 1).close > At(candles, 1).open

\* C13: every mark has an index i with 2 <= i < number of bars; arrays of fewer
\* than 3 bars yield no marks; no mark is emitted at index 0 or 1.
C13_MarkIndexes ==
    Detected =>
        /\ \A m \in Range(result.val) : 2 <= m.index /\ m.index < Len(candles)
        /\ Len(candles) < 3 => result.val = << >>

\* Bars 0 and 1 have doji shapes, bar 2 does too: only bar 2 is marked.
C13_Witness ==
    /\ Detected
    /\ Len(candles) = 3
    /\ \A i \in 0..2 : At(candles, i) = Bar(100, 110, 90, 100)
    /\ result.val = <<Mark(2, "Doji", "top")>>

\* C14: at every index i >= 2 a Hammer mark is emitted exactly when
\* previous.close < bar[i-2].close, the body |close - open| is non-zero, the lower
\* shadow min(open, close) - low is greater than 2x the body and the upper shadow
\* high - max(open, close) is less than 0.5x the body.
C14_Hammer ==
    Detected =>
        \A i \in 2..(Len(candles) - 1) :
            LET c == At(candles, i)
                body == Abs(c.close - c.open)
                lower == Min(c.open, c.close) - c.low
                upper == c.high - Max(c.open, c.close)
            IN  (\E m \in Range(result.val) : m.index = i /\ m.name = "Hammer")
                  = (/\ At(candles, i - 1).close < At(candles, i - 2).close
                     /\ body # 0
                     /\ lower > 2 * body
                     /\ 2 * upper < body)

\* A hammer after a falling close is marked; the same shape is in the array at
\* index 1 and is not.
C14_Witness ==
    /\ Detected
    /\ Len(candles) = 3
    /\ At(candles, 2) = Bar(100, 112, 70, 110)
    /\ At(candles, 1).close < At(candles, 0).close
    /\ Mark(2, "Hammer", "bottom") \in Range(result.val)

\* C15: at every index i >= 2 a Doji mark is emitted exactly when high - low > 0
\* and |close - open| / (high - low) < 0.08; a zero-range bar never gets one.
C15_Doji ==
    Detected =>
        \A i \in 2..(Len(candles) - 1) :
            LET c == At(candles, i)
                body == Abs(c.close - c.open)
                range == c.high - c.low
            IN  /\ (\E m \in Range(result.val) : m.index = i /\ m.name = "Doji")
                      = (range > 0 /\ 100 * body < 8 * range)
                /\ range = 0 =>
                      ~ \E m \in Range(result.val) : m.index = i /\ m.name = "Doji"

\* A zero-range bar and a bar at exactly 0.08 are unmarked, a bar below 0.08 with
\* a non-zero body is marked.
C15_Witness ==
    /\ Detected
    /\ Len(candles) = 3
    /\ At(candles, 2) = Bar(100, 113, 87, 102)
    /\ Mark(2, "Doji", "top") \in Range(result.val)

\* ----------------------------------------------------- indicator claims
\* calculateMACD has just been applied to candles with the periods result.arg.
MacdCalled == result.fn = "macd"

\* C16: calculateMACD returns null for every candle array with fewer than
\* slowPeriod + signalPeriod candles (35 with the defaults 26 and 9), and for an
\* array of exactly slowPeriod + signalPeriod candles it returns a macdLine, a
\* signalLine and a histogram that are all numbers.
C16_MacdThreshold ==
    MacdCalled =>
        LET threshold == result.arg[2] + result.arg[3]
        IN  /\ Len(candles) < threshold => result.val = NullMACD
            /\ Len(candles) = threshold =>
                   /\ ~ result.val.isNull
                   /\ ~ IsNull(result.val.macdLine)
                   /\ ~ IsNull(result.val.signalLine)
                   /\ ~ IsNull(result.val.histogram)

\* calculateMACD with the default periods returned numbers for exactly 35
\* candles whose last close moved.
C16_Witness ==
    /\ MacdCalled
    /\ result.arg = DefaultPeriods
    /\ Len(candles) = SlowPeriod + SignalPeriod
    /\ ~ result.val.isNull
    /\ result.val.macdLine # RInt(0)

\* SparklineChart has just rendered candles: result.val is what useMemo returned.
MemoCalled == result.fn = "memo"

\* C17: for every candle array of length n >= 35 the RSI, MACD line, signal
\* line, histogram and 20-period volume SMA series each have exactly n entries,
\* entry i belonging to candle i; an entry is null exactly before the
\* indicator's lookback is satisfied (RSI i < 14, MACD line i < 25, signal line
\* and histogram i < 33, volume SMA i < 19); and the MACD line at i is the
\* 12-period EMA at candle i minus the 26-period EMA at candle i.
C17_SeriesAlignment ==
    MemoCalled /\ Len(candles) >= 35 =>
        LET n == Len(candles)
            v == result.val
            ema12 == CalculateEMA(Closes(candles), 12)
            ema26 == CalculateEMA(Closes(candles), 26)
        IN  /\ Len(v.rsiHistory) = n
            /\ Len(v.macdHistory.macdLine) = n
            /\ Len(v.macdHistory.signalLine) = n
            /\ Len(v.macdHistory.histogram) = n
            /\ Len(v.volumeSma) = n
            /\ \A i \in 0..(n - 1) :
                /\ IsNull(At(v.rsiHistory, i)) <=> i < 14
                /\ IsNull(At(v.macdHistory.macdLine, i)) <=> i < 25
                /\ IsNull(At(v.macdHistory.signalLine, i)) <=> i < 33
                /\ IsNull(At(v.macdHistory.histogram, i)) <=> i < 33
                /\ IsNull(At(v.volumeSma, i)) <=> i < 19
                /\ i >= 25 =>
                       At(v.macdHistory.macdLine, i)
                           = RSub(At(ema12, i - 11), At(ema26, i - 25))

\* The chart rendered 37 candles whose last closes moved: the signal line
\* starts at index 33 and the last MACD line entry is not zero.
C17_Witness ==
    /\ MemoCalled
    /\ Len(candles) = 37
    /\ IsNull(At(result.val.macdHistory.signalLine, 32))
    /\ ~ IsNull(At(result.val.macdHistory.signalLine, 33))
    /\ At(result.val.macdHistory.macdLine, 36) # RInt(0)

\* C18: for every candle array with fewer than 35 candles useMemo computes no
\* indicator and returns empty results: empty RSI, MACD line, signal line and
\* histogram series, no pattern marks, no crossover markers and no
\* volume-anomaly markers.
C18_BelowGateEmpty ==
    MemoCalled /\ Len(candles) < 35 =>
        /\ result.val.rsiHistory = << >>
        /\ result.val.macdHistory.macdLine = << >>
        /\ result.val.macdHistory.signalLine = << >>
        /\ result.val.macdHistory.histogram = << >>
        /\ result.val.detectedPatterns = << >>
        /\ result.val.buySignals = << >>
        /\ result.val.sellSignals = << >>
        /\ result.val.pointRadii = << >>
        /\ result.val.volumeSma = << >>

\* The chart rendered 34 candles and got the empty results.
C18_Witness ==
    /\ MemoCalled
    /\ Len(candles) = 34
    /\ result.val = EmptyMemo

\* calculateRSI has just been applied to candles.
RsiCalled == result.fn = "rsi"

\* C19: the latest-value and the full-history computations agree. For every
\* candle array of length n >= 35, calculateRSI equals the last entry of
\* calculateRSIHistory rounded to 2 decimals, and calculateMACD's macdLine,
\* signalLine and histogram equal the last entries of calculateMACDHistory's
\* series, each rounded to 2 decimals. The same is stated for the short periods,
\* from the length at which the latest value exists.
C19_LatestMatchesHistory ==
    LET prices == Closes(candles)
        n == Len(candles)
    IN  /\ RsiCalled /\ (n >= 35 \/ (result.arg # RsiPeriod /\ n > result.arg)) =>
               result.val = Round2(Last(CalculateRSIHistory(prices, result.arg)))
        /\ MacdCalled /\ (n >= 35 \/ (result.arg # DefaultPeriods
                                       /\ n >= result.arg[2] + result.arg[3])) =>
               LET macdHistory == CalculateMACDHistory(prices, result.arg[1],
                                                       result.arg[2], result.arg[3])
               IN  /\ ~ result.val.isNull
                   /\ result.val.macdLine = Round2(Last(macdHistory.macdLine))
                   /\ result.val.signalLine = Round2(Last(macdHistory.signalLine))
                   /\ result.val.histogram = Round2(Last(macdHistory.histogram))

\* calculateRSI was applied with its default period to 37 candles whose last two
\* closes moved up and then down, and returned a value that is neither 0 nor 100.
C19_Witness ==
    /\ RsiCalled
    /\ result.arg = RsiPeriod
    /\ Len(candles) = 37
    /\ ~ IsNull(result.val)
    /\ result.val # RInt(100)
    /\ result.val # RInt(0)

\* One of the two copies of calculateEMA has just been applied to the closes of
\* candles with the period result.arg.
EmaCalled == result.fn \in {"ema", "chartEma"}

RECURSIVE SumOf(_)
\* The sum of the numbers of a sequence.
SumOf(sq) == IF sq = << >> THEN RInt(0) ELSE RAdd(Head(sq), SumOf(Tail(sq)))

\* C20: for every period p, calculateEMA returns an empty sequence for a
\* sequence shorter than p; for a sequence of length n >= p it returns exactly
\* n - p + 1 values, without padding: the first is the mean of the first p
\* inputs, and each later one is price * k + previous * (1 - k) with
\* k = 2 / (p + 1).
C20_Ema ==
    EmaCalled =>
        LET prices == Closes(candles)
            n == Len(candles)
            p == result.arg
            v == result.val
            k == RFrac(2, p + 1)
        IN  /\ n < p => v = << >>
            /\ n >= p =>
                   /\ Len(v) = n - p + 1
                   /\ \A j \in 1..Len(v) : ~ IsNull(v[j])
                   /\ v[1] = RDiv(SumOf(SubSeq(prices, 1, p)), RInt(p))
                   /\ \A j \in 2..Len(v) :
                          v[j] = RAdd(RMul(prices[p + j - 1], k),
                                      RMul(v[j - 1], RSub(RInt(1), k)))

\* The service's calculateEMA was applied with period 2 to three candles of
\* different closes and returned two different values.
C20_Witness ==
    /\ result.fn = "ema"
    /\ result.arg = 2
    /\ Len(candles) = 3
    /\ candles[1].close # candles[2].close
    /\ Len(result.val) = 2
    /\ result.val[1] # result.val[2]

\* No close is above the one before it, and the last one is below: every
\* sequence of closes that falls at each step is one.
Decreasing(cs) ==
    /\ Len(cs) >= 2
    /\ \A i \in 2..Len(cs) : cs[i].close <= cs[i - 1].close
    /\ cs[Len(cs)].close < cs[Len(cs) - 1].close

\* No close is below the one before it.
NeverFalls(cs) == \A i \in 2..Len(cs) : cs[i].close >= cs[i - 1].close

\* C21: for every decreasing sequence of closes longer than the period,
\* calculateRSI returns 0: a number that is not negative and is at 0.
C21_DecreasingRsi ==
    RsiCalled /\ Len(candles) > result.arg /\ Decreasing(candles) =>
        /\ ~ IsNull(result.val)
        /\ RLe(RInt(0), result.val)
        /\ result.val = RInt(0)

\* calculateRSI with period 1 met three closes each below the one before (its
\* seeding loop and its smoothing loop both ran) and returned 0.
C21_Witness ==
    /\ RsiCalled
    /\ result.arg = 1
    /\ Len(candles) = 3
    /\ candles[3].close < candles[2].close
    /\ candles[2].close < candles[1].close
    /\ result.val = RInt(0)

\* C22: calculateRSI returns null whenever the number of candles is at most the
\* period. Otherwise it returns 100 whenever the smoothed average loss is zero,
\* which is the case whenever no close is below the one before it: for every
\* increasing sequence of closes longer than the period it returns 100.
C22_NullOrHundred ==
    RsiCalled =>
        /\ Len(candles) <= result.arg => IsNull(result.val)
        /\ Len(candles) > result.arg =>
               /\ ~ IsNull(result.val)
               /\ NeverFalls(candles) => result.val = RInt(100)
               /\ (LET prices == Closes(candles)
                       seed == SeedAverages(prices, result.arg)
                       avg == RsiSmooth(prices, result.arg, result.arg + 1,
                                        seed.gain, seed.loss)
                   IN  avg.loss = RInt(0) => result.val = RInt(100))

\* calculateRSI with period 2 met three rising closes and returned 100.
C22_Witness ==
    /\ RsiCalled
    /\ result.arg = 2
    /\ Len(candles) = 3
    /\ candles[1].close < candles[2].close
    /\ candles[2].close < candles[3].close
    /\ result.val = RInt(100)

RECURSIVE VolumeSum(_, _, _)
\* The sum of the volumes of the candles a .. b (indexes from 0).
VolumeSum(cs, a, b) == IF a > b THEN 0 ELSE At(cs, b).volume + VolumeSum(cs, a, b - 1)

\* The volume of candle i is above 1.75 times the mean of the volumes i-19 .. i.
AboveTrailingMean(cs, i) == 20 * 100 * At(cs, i).volume > 175 * VolumeSum(cs, i - 19, i)

\* C23: the candle at index i gets a non-zero marker radius exactly when the
\* trailing 20-period volume SMA at i is defined (i >= 19) and the candle's
\* volume is strictly greater than 1.75 times that SMA; the SMA at i is the
\* mean of the volumes i-19 .. i; candles below index 19 never get the marker.
C23_VolumeAnomaly ==
    MemoCalled /\ Len(candles) >= 35 =>
        /\ Len(result.val.pointRadii) = Len(candles)
        /\ \A i \in 0..(Len(candles) - 1) :
            /\ At(result.val.pointRadii, i) \in {RInt(0), RFrac(5, 2)}
            /\ At(result.val.pointRadii, i) # RInt(0)
                   <=> (i >= 19 /\ AboveTrailingMean(candles, i))
            /\ i >= 19 =>
                   At(result.val.volumeSma, i)
                       = RFrac(VolumeSum(candles, i - 19, i), 20)
            /\ i < 19 => At(result.val.pointRadii, i) = RInt(0)

\* The chart rendered 36 candles: the one at 34 has exactly 1.75 times its
\* trailing mean volume and no marker, the one at 35 is above and has one.
C23_Witness ==
    /\ MemoCalled
    /\ Len(candles) = 36
    /\ At(candles, 34).volume = 1330
    /\ At(result.val.volumeSma, 34) = RInt(760)
    /\ At(result.val.pointRadii, 34) = RInt(0)
    /\ At(result.val.pointRadii, 35) = RFrac(5, 2)

\* The MACD line and the signal line are both numbers at i - 1 and at i.
LinesDefined(macd, i) ==
    /\ i >= 1
    /\ ~ IsNull(At(macd.macdLine, i - 1))
    /\ ~ IsNull(At(macd.macdLine, i))
    /\ ~ IsNull(At(macd.signalLine, i - 1))
    /\ ~ IsNull(At(macd.signalLine, i))

\* C24: a buy marker is set at index i exactly when the MACD line and the
\* signal line are both defined at i-1 and at i, MACD <= signal at i-1 and
\* MACD > signal at i; a sell marker exactly under the mirrored condition; the
\* marker is the close at i; when any of the four values is undefined there is
\* no marker, so that no marker is at an index below 34.
C24_Crossovers ==
    MemoCalled /\ Len(candles) >= 35 =>
        LET v == result.val
            macd == v.macdHistory
        IN  /\ Len(v.buySignals) = Len(candles)
            /\ Len(v.sellSignals) = Len(candles)
            /\ \A i \in 0..(Len(candles) - 1) :
                /\ ~ IsNull(At(v.buySignals, i))
                       <=> /\ LinesDefined(macd, i)
                           /\ RLe(At(macd.macdLine, i - 1), At(macd.signalLine, i - 1))
                           /\ RLt(At(macd.signalLine, i), At(macd.macdLine, i))
                /\ ~ IsNull(At(v.sellSignals, i))
                       <=> /\ LinesDefined(macd, i)
                           /\ RLe(At(macd.signalLine, i - 1), At(macd.macdLine, i - 1))
                           /\ RLt(At(macd.macdLine, i), At(macd.signalLine, i))
                /\ ~ IsNull(At(v.buySignals, i)) =>
                       At(v.buySignals, i) = RInt(At(candles, i).close)
                /\ ~ IsNull(At(v.sellSignals, i)) =>
                       At(v.sellSignals, i) = RInt(At(candles, i).close)
                /\ i < 34 => IsNull(At(v.buySignals, i)) /\ IsNull(At(v.sellSignals, i))

\* The chart rendered 36 candles, flat up to a rise at 34 and a fall at 35: a
\* buy marker at 34, where the lines were equal before, and a sell marker at 35.
C24_Witness ==
    /\ MemoCalled
    /\ Len(candles) = 36
    /\ At(result.val.buySignals, 34) = RInt(12)
    /\ At(result.val.sellSignals, 35) = RInt(8)
    /\ IsNull(At(result.val.sellSignals, 34))

\* ----------------------------------------------- scheduler state claims
\* The drain steps outstanding: operations awaited plus interval timers pending.
Outstanding == Cardinality(inFlight) + Len(timers)

\* C25: between two callbacks, isProcessing is true if and only if exactly one
\* drain step is outstanding: one task in flight or one interval timer pending,
\* never both and never two of either. So whenever the queue is not empty
\* isProcessing is true, and whenever isProcessing is false the queue is empty,
\* no task is in flight and no timer is pending.
C25_DrainChain ==
    /\ Outstanding <= 1
    /\ isProcessing <=> Outstanding = 1
    /\ requestQueue # << >> => isProcessing
    /\ ~ isProcessing =>
           requestQueue = << >> /\ inFlight = {} /\ timers = << >>

\* A task waits in the queue while the interval timer of the one before it is
\* pending.
C25_Witness ==
    /\ isProcessing
    /\ requestQueue # << >>
    /\ inFlight = {}
    /\ Len(timers) = 1

\* Some running operation awaits the handle of a task it submitted itself.
Reentered == \E t \in Tasks : awaits[t] # 0

\* C26: once a running task's operation has submitted another operation to the
\* scheduler and awaits its handle before completing, the inner task is never
\* invoked, the outer task never completes, and no queued task is ever invoked
\* afterwards: from then on nothing is invoked and nothing is delivered.
C26_ReentrantDeadlock ==
    [][Reentered =>
          /\ invoked' = invoked
          /\ delivered' = delivered
          /\ \A t \in Tasks :
                awaits[t] # 0 =>
                    /\ inFlight' = {t}
                    /\ handle'[t] = Pending
                    /\ invocations'[awaits[t]] = 0
                    /\ handle'[awaits[t]] = Pending]_<<vars, reVars>>

\* Task 1 awaits task 2, which waits in the queue together with task 3, submitted
\* after it; neither was invoked.
C26_Witness ==
    /\ awaits[1] = 2
    /\ requestQueue = <<2, 3>>
    /\ inFlight = {1}
    /\ timers = << >>
    /\ invoked = <<1>>

\* C27: every request to the analysis service is sent by the task the
\* scheduler is running, one per task: at most one request is outstanding, and
\* one is outstanding exactly while the running task (a fetchSignal past its
\* candle fetch, a chat, sentiment or news call) awaits the service's answer.
C27_OneOutstanding ==
    /\ requests <= 1
    /\ requests = 1 <=> apiCall.stage = "service"
    /\ apiCall # NoCall => apiProcessing /\ ~apiTimer

\* A sentiment request is outstanding while a chat message and a refresh of a
\* symbol wait in the queue.
C27_Witness ==
    /\ requests = 1
    /\ apiCall.kind = "sentiment"
    /\ \E i \in 1..Len(apiQueue) : apiQueue[i].kind = "chat"
    /\ \E i \in 1..Len(apiQueue) : apiQueue[i].kind = "signal"


\* fetchSignal tasks of symbol s that are queued or running
QueuedSignals(s) == Cardinality({i \in 1..Len(apiQueue) : apiQueue[i] = SignalTask(s)})
PendingSignals(s) ==
    QueuedSignals(s) + (IF apiCall.kind = "signal" /\ apiCall.sym = s THEN 1 ELSE 0)

\* C28: at any time at most one fetchSignal task per symbol is queued or in
\* flight in the scheduler.
C28_OneRefreshPerSymbol == \A s \in STOCKS : PendingSignals(s) <= 1

\* The step lowers the countdown of symbol s: only the interval callback does.
CountedDown(s) == stockData'[s].countdown < stockData[s].countdown
\* What the interval callback does to an ONLINE symbol, without the scheduling.
Decremented(s) ==
    /\ stockData[s].status = "ONLINE"
    /\ IF stockData[s].countdown - 1 <= 0
       THEN stockData'[s].status = "REFRESHING" /\ stockData'[s].countdown = 0
       ELSE /\ stockData'[s].status = "ONLINE"
            /\ stockData'[s].countdown = stockData[s].countdown - 1
            /\ PendingSignals(s)' = PendingSignals(s)
\* A step in which the timer acted leaves the symbols that are not ONLINE as
\* they were, and a symbol that is not ONLINE gets a new fetchSignal task only
\* from Refresh All, which gives one to every symbol.
OthersUntouched ==
    /\ (\E s \in STOCKS : CountedDown(s)) =>
          \A r \in STOCKS : stockData[r].status # "ONLINE" =>
              stockData'[r] = stockData[r] /\ PendingSignals(r)' = PendingSignals(r)
    /\ \A r \in STOCKS :
          stockData[r].status # "ONLINE" /\ PendingSignals(r)' > PendingSignals(r) =>
              ~IsRefreshingAll /\ \A q \in STOCKS : PendingSignals(q)' = PendingSignals(q) + 1

\* C29: the one-second timer acts on ONLINE symbols only: it decrements their
\* countdown and, when it reaches 0 or less, sets the symbol REFRESHING with
\* countdown 0 and schedules one fetchSignal for it; OFFLINE and REFRESHING
\* symbols are left unchanged and are re-fetched by Refresh All only.
C29_CountdownTimer ==
    [][/\ \A s \in STOCKS : CountedDown(s) =>
             /\ Decremented(s)
             /\ stockData[s].countdown - 1 <= 0 =>
                    PendingSignals(s)' = PendingSignals(s) + 1
       /\ OthersUntouched]_appVars

\* fetchSignal(s) completes in this step: the service answers its request.
Completing(s) ==
    /\ apiCall.kind = "signal"
    /\ apiCall.sym = s
    /\ apiCall.stage = "service"
    /\ apiCall' # apiCall

\* C30: fetchSignal never rejects: when it completes, its task's promise
\* resolves and the countdown is reset to REFRESH_INTERVAL_SECONDS; the symbol
\* is either ONLINE with the newly fetched candles, their signal and no error,
\* or OFFLINE with an error message and the candles, signal and chat history
\* it had before; it is not left REFRESHING.
C30_FetchSignalSettles ==
    [][\A s \in STOCKS : Completing(s) =>
          /\ outcome' = "resolved"
          /\ stockData'[s].countdown = REFRESH_INTERVAL_SECONDS
          /\ \/ /\ stockData'[s].status = "ONLINE"
                /\ stockData'[s].candles = apiCall.candles
                /\ stockData'[s].candles # stockData[s].candles
                /\ stockData'[s].signal = apiCall.candles
                /\ ~stockData'[s].error
             \/ /\ stockData'[s].status = "OFFLINE"
                /\ stockData'[s].error
                /\ stockData'[s].candles = stockData[s].candles
                /\ stockData'[s].signal = stockData[s].signal
                /\ stockData'[s].chat = stockData[s].chat]_appVars

\* A refresh has just failed for a symbol that had candles, a signal and a chat
\* history: it is OFFLINE with an error and still has them.
C30_Witness ==
    /\ apiCall = NoCall
    /\ apiTimer
    /\ outcome = "resolved"
    /\ stockData[1].status = "OFFLINE"
    /\ stockData[1].error
    /\ stockData[1].candles = 2
    /\ stockData[1].signal = 2
    /\ stockData[1].chat = 2

TypeOK ==
    /\ requestQueue \in Seq(Tasks)
    /\ isProcessing \in BOOLEAN
    /\ inFlight \subseteq Tasks
    /\ timers \in Seq(0..MIN_INTERVAL)
    /\ submitted \in 0..NumTasks
    /\ status \in [Tasks -> {"new", "queued", "running", "resolved", "failed"}]
    /\ handle \in [Tasks -> Outcomes \cup {Pending}]
    /\ opResult \in [Tasks -> Outcomes \cup {Pending}]
    /\ invocations \in [Tasks -> 0..1]
    /\ settleCalls \in [Tasks -> 0..1]
    /\ invoked \in Seq(Tasks)
    /\ delivered \in Seq(Tasks)
    /\ startedBy \in [Tasks -> {"none", "submit", "timer"}]
    /\ submittedIn \in [Tasks -> {"none", "idle", "running", "waiting"}]
    /\ sinceSettle \in -1..MIN_INTERVAL
    /\ sinceStart \in -1..MIN_INTERVAL
====
